---- MODULE Spec2Model ----
(***************************************************************************)
(* A model of transformdata.py: the six conversion functions between CSV,  *)
(* JSON and SQLite, the header detector they use, and the two front ends   *)
(* (cli_interface and DataTransformerApp.start_conversion).                *)
(*                                                                         *)
(* Text is modelled as sequences of one-character strings, so that the     *)
(* regular expression of detect_header is evaluated character by           *)
(* character.  A CSV file is modelled by the rows csv.reader yields from   *)
(* it (csv.writer followed by csv.reader is the identity on rows of text   *)
(* cells), a JSON file by the value json.load yields from it, and the      *)
(* database by its committed content: every call opens its own connection, *)
(* and work that is not committed when the call raises is rolled back.     *)
(***************************************************************************)
EXTENDS Integers, Sequences, FiniteSets, TLC

VARIABLES
    csv_src,    \* the CSV source file: [exists, rows]
    json_file,  \* the JSON file: [exists, doc]
    csv_out,    \* the CSV destination file: [exists, rows]
    db,         \* the database file: [exists, tables]
    hist,       \* the calls made so far, oldest first
    io          \* the file-system operations of the last call, in order

vars == <<csv_src, json_file, csv_out, db, hist, io>>

(***************************************************************************)
(* Bounds of the model.                                                    *)
(***************************************************************************)
MaxRows == 3
MaxCols == 2
MaxItems == 2
MaxDbRows == 1
MaxCalls == 2

(***************************************************************************)
(* Text cells.                                                             *)
(***************************************************************************)
CellA == <<"a">>
CellB == <<"b">>
CellNum == <<"1">>
CellNl == <<"a", "\n">>
CellEmpty == <<>>
Cells == {CellA, CellB, CellNum, CellNl}

TableNames == {"t", "u"}

\* The characters the class [a-zA-Z_] accepts, among those of the model.
IdentChars == {"a", "b", "c", "n", "u", "l", "_"}

\* re.match(r'^[a-zA-Z_]+$', cell): one or more class characters from the
\* start, then '$', which Python matches at the end of the string and also
\* just before a newline that ends the string.
re_match(cell) ==
    \E k \in 1..Len(cell) :
        /\ \A i \in 1..k : cell[i] \in IdentChars
        /\ \/ k = Len(cell)
           \/ k = Len(cell) - 1 /\ cell[Len(cell)] = "\n"

NoHeader == [ok |-> FALSE, i |-> 0, row |-> <<>>]

\* detect_header's loop from row i (1-based here; the index returned is
\* Python's, 0-based).
RECURSIVE detect_from(_, _)
detect_from(rows, i) ==
    IF i > Len(rows) THEN NoHeader
    ELSE IF \A j \in 1..Len(rows[i]) : re_match(rows[i][j])
         THEN [ok |-> TRUE, i |-> i - 1, row |-> rows[i]]
         ELSE detect_from(rows, i + 1)

detect_header(rows) == detect_from(rows, 1)

(***************************************************************************)
(* Values: what a JSON value, a dict value or a database cell holds.       *)
(***************************************************************************)
Str(s) == [t |-> "str", s |-> s, l |-> <<>>]
Num(s) == [t |-> "num", s |-> s, l |-> <<>>]
List(l) == [t |-> "list", s |-> <<>>, l |-> l]
Null == [t |-> "null", s |-> <<>>, l |-> <<>>]

\* json.dump writes the key None as "null".
NullKey == <<"n", "u", "l", "l">>

RECURSIVE JoinRepr(_)
JoinRepr(l) ==
    IF l = <<>> THEN <<>>
    ELSE LET esc == [i \in 1..Len(l[1]) |->
                        IF l[1][i] = "\n" THEN <<"\\", "n">> ELSE <<l[1][i]>>]
             Flat[i \in 0..Len(esc)] ==
                 IF i = 0 THEN <<>> ELSE Flat[i - 1] \o esc[i]
             one == <<"'">> \o Flat[Len(esc)] \o <<"'">>
         IN IF Len(l) = 1 THEN one
            ELSE one \o <<",", " ">> \o JoinRepr(Tail(l))

\* How csv.writer renders a field: None as the empty string, a string as
\* itself, anything else by str().
Stringify(v) ==
    CASE v.t = "null" -> CellEmpty
      [] v.t = "str" -> v.s
      [] v.t = "num" -> v.s
      [] OTHER -> <<"[">> \o JoinRepr(v.l) \o <<"]">>

(***************************************************************************)
(* Dicts: sequences of [k, v] in insertion order, keys unique.             *)
(***************************************************************************)
HasKey(d, k) == \E i \in 1..Len(d) : d[i].k = k

\* d[k] = v: an existing key keeps its place.
DictSet(d, k, v) ==
    IF HasKey(d, k)
    THEN [i \in 1..Len(d) |-> IF d[i].k = k THEN [k |-> k, v |-> v] ELSE d[i]]
    ELSE Append(d, [k |-> k, v |-> v])

\* d.get(k, None)
DictGet(d, k) ==
    IF HasKey(d, k)
    THEN d[CHOOSE i \in 1..Len(d) : d[i].k = k].v
    ELSE Null

\* Keys in the reverse of the insertion order.
Keys_reversed(d) == [i \in 1..Len(d) |-> d[Len(d) + 1 - i].k]

\* list(d.keys())
Keys(d) == [i \in 1..Len(d) |-> d[i].k]

Obj(d) == [t |-> "obj", kv |-> d]
Scalar == [t |-> "num", kv |-> <<>>]

ArrayDoc(items) == [t |-> "array", items |-> items]
ObjectDoc(d) == [t |-> "object", items |-> <<Obj(d)>>]
ScalarDoc == [t |-> "scalar", items |-> <<>>]

NoCsv == [exists |-> FALSE, rows |-> <<>>]
CsvFile(rows) == [exists |-> TRUE, rows |-> rows]
NoJson == [exists |-> FALSE, doc |-> ScalarDoc]
JsonFile(doc) == [exists |-> TRUE, doc |-> doc]

NoTable == [present |-> FALSE, cols |-> <<>>, rows |-> <<>>]
Table(cols, rows) == [present |-> TRUE, cols |-> cols, rows |-> rows]
NoDb == [exists |-> FALSE, tables |-> [n \in TableNames |-> NoTable]]
EmptyDb == [exists |-> TRUE, tables |-> [n \in TableNames |-> NoTable]]

(***************************************************************************)
(* csv.DictReader, as csv_to_json uses it: the first row the reader yields *)
(* is the field names, whatever it holds; blank rows after it are skipped; *)
(* a short row is filled with None and the surplus of a long row is kept   *)
(* under the key None.                                                     *)
(***************************************************************************)
RECURSIVE ZipDict(_, _, _, _)
ZipDict(d, fieldnames, row, i) ==
    IF i > Len(fieldnames) \/ i > Len(row) THEN d
    ELSE ZipDict(DictSet(d, fieldnames[i], Str(row[i])), fieldnames, row, i + 1)

RECURSIVE FillRest(_, _, _)
FillRest(d, fieldnames, i) ==
    IF i > Len(fieldnames) THEN d
    ELSE FillRest(DictSet(d, fieldnames[i], Null), fieldnames, i + 1)

RowDict(fieldnames, row) ==
    LET d == ZipDict(<<>>, fieldnames, row, 1)
        lf == Len(fieldnames)
        lr == Len(row)
    IN IF lf < lr THEN DictSet(d, NullKey, List(SubSeq(row, lf + 1, lr)))
       ELSE IF lf > lr THEN FillRest(d, fieldnames, lr + 1)
       ELSE d

NonBlank(r) == r # <<>>

DictReader(rows) ==
    IF rows = <<>> THEN <<>>
    ELSE LET body == SelectSeq(Tail(rows), NonBlank)
         IN [i \in 1..Len(body) |-> Obj(RowDict(rows[1], body[i]))]

(***************************************************************************)
(* sqlite3.                                                                *)
(***************************************************************************)
\* sqlite3.connect(path) creates the database file when there is none.
Connect(d) == IF d.exists THEN d ELSE EmptyDb

Distinct(cols) ==
    \A i, j \in 1..Len(cols) : i # j => cols[i] # cols[j]

\* CREATE TABLE IF NOT EXISTS table (cols TEXT...): an empty column list is
\* a syntax error; an existing table is left as it is; duplicate column
\* names are refused.  The statement commits at once.
CreateTable(d, table, cols) ==
    IF cols = <<>> THEN [ok |-> FALSE, db |-> d]
    ELSE IF d.tables[table].present THEN [ok |-> TRUE, db |-> d]
    ELSE IF ~Distinct(cols) THEN [ok |-> FALSE, db |-> d]
    ELSE [ok |-> TRUE,
          db |-> [d EXCEPT !.tables[table] = Table(cols, <<>>)]]

\* A value as a TEXT column stores it.
Affinity(v) == IF v.t = "num" THEN Str(v.s) ELSE v

\* executemany('INSERT INTO table VALUES (?, ..n.. ?)', rows)
ExecuteMany(d, table, n, rows) ==
    IF Len(d.tables[table].cols) # n
    THEN [err |-> "OperationalError", db |-> d]
    ELSE IF \E i \in 1..Len(rows) :
                \/ Len(rows[i]) # n
                \/ \E j \in 1..Len(rows[i]) : rows[i][j].t = "list"
    THEN [err |-> "ProgrammingError", db |-> d]
    ELSE [err |-> "ok",
          db |-> [d EXCEPT !.tables[table].rows =
                     @ \o [i \in 1..Len(rows) |->
                             [j \in 1..n |-> Affinity(rows[i][j])]]]]

\* Select without the except clause: a missing table reads as an empty one.
Select_no_check(d, table) ==
    [err |-> "ok", headers |-> d.tables[table].cols,
     data |-> d.tables[table].rows]

\* cursor.execute('SELECT * FROM table') and the except clause around it.
Select(d, table) ==
    IF d.tables[table].present
    THEN [err |-> "ok", headers |-> d.tables[table].cols,
          data |-> d.tables[table].rows]
    ELSE [err |-> "TableNotFound", headers |-> <<>>, data |-> <<>>]

(***************************************************************************)
(* The six conversions.  Each gives the outcome of one call in the current *)
(* state: the status (ok, or the failure raised), the three files that a   *)
(* call may write as the call leaves them, the file-system operations it   *)
(* made, and the header it detected (csv_to_sqlite).                       *)
(***************************************************************************)
Out(status, j, c, d, ops, hdr) ==
    [status |-> status, json_file |-> j, csv_out |-> c, db |-> d,
     io |-> ops, hdr |-> hdr]

StrRow(row) == [j \in 1..Len(row) |-> Str(row[j])]

csv_to_sqlite(table) ==
    LET conn == Connect(db)
        rows == csv_src.rows
        h == detect_header(rows)
        created == CreateTable(conn, table, h.row)
        rows_to_insert == SubSeq(rows, h.i + 2, Len(rows))
        ins == ExecuteMany(created.db, table, Len(h.row),
                           [i \in 1..Len(rows_to_insert) |->
                               StrRow(rows_to_insert[i])])
    IN IF ~csv_src.exists
       THEN Out("FileNotFoundError", json_file, csv_out, conn,
                <<"db:connect">>, NoHeader)
       ELSE IF ~h.ok
       THEN Out("NoHeaderFound", json_file, csv_out, conn,
                <<"db:connect", "csv_src:read">>, h)
       ELSE IF ~created.ok
       THEN Out("OperationalError", json_file, csv_out, conn,
                <<"db:connect", "csv_src:read">>, h)
       ELSE IF rows_to_insert = <<>>
       THEN Out("ok", json_file, csv_out, created.db,
                <<"db:connect", "csv_src:read", "db:create", "db:commit">>, h)
       ELSE IF ins.err # "ok"
       THEN Out(ins.err, json_file, csv_out, created.db,
                <<"db:connect", "csv_src:read", "db:create">>, h)
       ELSE Out("ok", json_file, csv_out, ins.db,
                <<"db:connect", "csv_src:read", "db:create", "db:insert",
                  "db:commit">>, h)

csv_to_json ==
    IF ~csv_src.exists
    THEN Out("FileNotFoundError", json_file, csv_out, db, <<>>, NoHeader)
    ELSE Out("ok", JsonFile(ArrayDoc(DictReader(csv_src.rows))), csv_out, db,
             <<"csv_src:read", "json_file:write">>, NoHeader)

\* The rows json_to_csv writes for items 1..n of data, after the header.
OrderedRow(item, headers) ==
    [j \in 1..Len(headers) |-> Stringify(DictGet(item.kv, headers[j]))]

\* The first item that is no object, or Len(items) + 1.
FirstNonObj(items) ==
    IF \A i \in 1..Len(items) : items[i].t = "obj" THEN Len(items) + 1
    ELSE CHOOSE i \in 1..Len(items) :
            /\ items[i].t # "obj"
            /\ \A k \in 1..(i - 1) : items[k].t = "obj"

json_to_csv ==
    LET data == json_file.doc.items
        headers == Keys(data[1].kv)
        stop == FirstNonObj(data)
        written == <<headers>> \o
                   [i \in 1..(stop - 1) |-> OrderedRow(data[i], headers)]
    IN IF ~json_file.exists
       THEN Out("FileNotFoundError", json_file, csv_out, db, <<>>, NoHeader)
       ELSE IF json_file.doc.t # "array"
       THEN Out("SchemaViolation", json_file, csv_out, db,
                <<"json_file:read">>, NoHeader)
       ELSE IF data = <<>>
       THEN Out("IndexError", json_file, csv_out, db,
                <<"json_file:read">>, NoHeader)
       ELSE IF data[1].t # "obj"
       THEN Out("AttributeError", json_file, csv_out, db,
                <<"json_file:read">>, NoHeader)
       ELSE IF stop <= Len(data)
       THEN Out("AttributeError", json_file, CsvFile(written), db,
                <<"json_file:read", "csv_out:write">>, NoHeader)
       ELSE Out("ok", json_file, CsvFile(written), db,
                <<"json_file:read", "csv_out:write">>, NoHeader)

json_to_sqlite(table) ==
    LET data == json_file.doc.items
        headers == Keys(data[1].kv)
        conn == Connect(db)
        created == CreateTable(conn, table, headers)
        rows_to_insert == [i \in 1..Len(data) |->
                              [j \in 1..Len(headers) |->
                                  DictGet(data[i].kv, headers[j])]]
        ins == ExecuteMany(created.db, table, Len(headers), rows_to_insert)
    IN IF ~json_file.exists
       THEN Out("FileNotFoundError", json_file, csv_out, db, <<>>, NoHeader)
       ELSE IF json_file.doc.t # "array"
       THEN Out("SchemaViolation", json_file, csv_out, db,
                <<"json_file:read">>, NoHeader)
       ELSE IF data = <<>>
       THEN Out("IndexError", json_file, csv_out, db,
                <<"json_file:read">>, NoHeader)
       ELSE IF data[1].t # "obj"
       THEN Out("AttributeError", json_file, csv_out, db,
                <<"json_file:read">>, NoHeader)
       ELSE IF ~created.ok
       THEN Out("OperationalError", json_file, csv_out, conn,
                <<"json_file:read", "db:connect">>, NoHeader)
       ELSE IF FirstNonObj(data) <= Len(data)
       THEN Out("AttributeError", json_file, csv_out, created.db,
                <<"json_file:read", "db:connect", "db:create">>, NoHeader)
       ELSE IF ins.err # "ok"
       THEN Out(ins.err, json_file, csv_out, created.db,
                <<"json_file:read", "db:connect", "db:create">>, NoHeader)
       ELSE Out("ok", json_file, csv_out, ins.db,
                <<"json_file:read", "db:connect", "db:create", "db:insert",
                  "db:commit">>, NoHeader)

\* dict(zip(headers, row))
ZipRow(headers, row) ==
    [j \in 1..Len(headers) |-> [k |-> headers[j], v |-> row[j]]]

sqlite_to_json(table) ==
    LET conn == Connect(db)
        sel == Select(conn, table)
        json_data == [i \in 1..Len(sel.data) |->
                         Obj(ZipRow(sel.headers, sel.data[i]))]
    IN IF sel.err # "ok"
       THEN Out(sel.err, json_file, csv_out, conn,
                <<"db:connect", "db:select">>, NoHeader)
       ELSE Out("ok", JsonFile(ArrayDoc(json_data)), csv_out, conn,
                <<"db:connect", "db:select", "json_file:write">>, NoHeader)

sqlite_to_csv(table) ==
    LET conn == Connect(db)
        sel == Select(conn, table)
        written == <<sel.headers>> \o
                   [i \in 1..Len(sel.data) |->
                       [j \in 1..Len(sel.data[i]) |->
                           Stringify(sel.data[i][j])]]
    IN IF sel.err # "ok"
       THEN Out(sel.err, json_file, csv_out, conn,
                <<"db:connect", "db:select">>, NoHeader)
       ELSE Out("ok", json_file, CsvFile(written), conn,
                <<"db:connect", "db:select", "csv_out:write">>, NoHeader)

(***************************************************************************)
(* The front ends.  An input path is modelled by its extension, which is   *)
(* all the front ends look at; the output path is the file of the chosen   *)
(* format.  table = "" stands for no table name (None or an empty entry).  *)
(***************************************************************************)
Exts == {".csv", ".json", ".db", ".txt"}
Formats == {"csv", "json", "sqlite"}
TableArgs == TableNames \cup {""}

Stay(status) == Out(status, json_file, csv_out, db, <<>>, NoHeader)

\* The if/elif chain both front ends share: the function a pair selects.
Route(ext, fmt) ==
    CASE ext = ".csv" /\ fmt = "sqlite" -> "csv_to_sqlite"
      [] ext = ".csv" /\ fmt = "json" -> "csv_to_json"
      [] ext = ".json" /\ fmt = "csv" -> "json_to_csv"
      [] ext = ".json" /\ fmt = "sqlite" -> "json_to_sqlite"
      [] ext = ".db" /\ fmt = "json" -> "sqlite_to_json"
      [] ext = ".db" /\ fmt = "csv" -> "sqlite_to_csv"
      [] OTHER -> "none"

Convert(op, table) ==
    CASE op = "csv_to_sqlite" -> csv_to_sqlite(table)
      [] op = "csv_to_json" -> csv_to_json
      [] op = "json_to_csv" -> json_to_csv
      [] op = "json_to_sqlite" -> json_to_sqlite(table)
      [] op = "sqlite_to_json" -> sqlite_to_json(table)
      [] op = "sqlite_to_csv" -> sqlite_to_csv(table)

NeedsTable(op) ==
    op \in {"csv_to_sqlite", "json_to_sqlite", "sqlite_to_json", "sqlite_to_csv"}

\* cli_interface: the table check comes first, on the format and the
\* extension alone; then the chain.
cli_interface(ext, fmt, table) ==
    IF (fmt = "sqlite" \/ ext = ".db") /\ table = ""
    THEN Stay("MissingTableName")
    ELSE IF Route(ext, fmt) = "none" THEN Stay("UnsupportedConversion")
    ELSE Convert(Route(ext, fmt), table)

\* start_conversion: the chain comes first, and the table check is made
\* inside the four branches that use a table.
start_conversion(ext, fmt, table, chosen) ==
    IF ext = "" THEN Stay("NoInputFile")
    ELSE IF ~chosen THEN Stay("Cancelled")
    ELSE IF Route(ext, fmt) = "none" THEN Stay("UnsupportedConversion")
    ELSE IF NeedsTable(Route(ext, fmt)) /\ table = ""
    THEN Stay("MissingTableName")
    ELSE Convert(Route(ext, fmt), table)

(***************************************************************************)
(* Calls.                                                                  *)
(***************************************************************************)
Rec(front, op, table, ext, fmt, o) ==
    [front |-> front, op |-> op, table |-> table, ext |-> ext, fmt |-> fmt,
     status |-> o.status, hdr |-> o.hdr]

Apply(rec, o) ==
    /\ hist' = Append(hist, rec)
    /\ json_file' = o.json_file
    /\ csv_out' = o.csv_out
    /\ db' = o.db
    /\ io' = o.io
    /\ UNCHANGED csv_src

Direct(op, table) ==
    Apply(Rec("none", op, table, "", "", Convert(op, table)),
          Convert(op, table))

CanCall == Len(hist) < MaxCalls

Call_csv_to_sqlite ==
    /\ CanCall
    /\ \E table \in TableNames : Direct("csv_to_sqlite", table)

Call_csv_to_json ==
    /\ CanCall
    /\ Direct("csv_to_json", "")

Call_json_to_csv ==
    /\ CanCall
    /\ Direct("json_to_csv", "")

Call_json_to_sqlite ==
    /\ CanCall
    /\ \E table \in TableNames : Direct("json_to_sqlite", table)

Call_sqlite_to_json ==
    /\ CanCall
    /\ \E table \in TableNames : Direct("sqlite_to_json", table)

Call_sqlite_to_csv ==
    /\ CanCall
    /\ \E table \in TableNames : Direct("sqlite_to_csv", table)

Cli ==
    /\ CanCall
    /\ \E ext \in Exts, fmt \in Formats, table \in TableArgs :
        Apply(Rec("cli", Route(ext, fmt), table, ext, fmt,
                  cli_interface(ext, fmt, table)),
              cli_interface(ext, fmt, table))

Gui ==
    /\ CanCall
    /\ \E ext \in Exts \cup {""}, fmt \in Formats, table \in TableArgs,
          chosen \in BOOLEAN :
        Apply(Rec("gui", Route(ext, fmt), table, ext, fmt,
                  start_conversion(ext, fmt, table, chosen)),
              start_conversion(ext, fmt, table, chosen))

(***************************************************************************)
(* Inputs.                                                                 *)
(***************************************************************************)
SeqsUpTo(S, n) == UNION {[1..k -> S] : k \in 0..n}

CsvRows == SeqsUpTo(Cells, MaxCols)
CsvInputs == {CsvFile(r) : r \in SeqsUpTo(CsvRows, MaxRows)} \cup {NoCsv}

JsonKeySeqs == {<<>>, <<CellA>>, <<CellB>>, <<CellA, CellB>>, <<CellB, CellA>>}
JsonVals == {Num(CellNum), Str(CellA)}
JsonObjs ==
    UNION {{[i \in 1..Len(ks) |-> [k |-> ks[i], v |-> vs[i]]] :
               vs \in [1..Len(ks) -> JsonVals]} : ks \in JsonKeySeqs}
JsonItems == {Obj(d) : d \in JsonObjs} \cup {Scalar}
JsonInputs ==
    {JsonFile(ArrayDoc(a)) : a \in SeqsUpTo(JsonItems, MaxItems)}
    \cup {JsonFile(ObjectDoc(d)) : d \in JsonObjs}
    \cup {JsonFile(ScalarDoc), NoJson}

DbVals == {Str(CellNum), Null}
DbTables ==
    {NoTable} \cup
    UNION {{Table(cols, rows) :
               rows \in SeqsUpTo([1..Len(cols) -> DbVals], MaxDbRows)} :
           cols \in {<<CellA>>, <<CellB, CellA>>}}
DbInputs ==
    {[exists |-> TRUE, tables |-> ts] : ts \in [TableNames -> DbTables]}
    \cup {NoDb}

OneTable ==
    [EmptyDb EXCEPT !.tables["t"] =
        Table(<<CellA, CellB>>, <<<<Str(CellNum), Null>>>>)]
DbSmall == {NoDb, EmptyDb, OneTable}

Start(cs, js, ds) ==
    /\ csv_src \in cs
    /\ json_file \in js
    /\ db \in ds
    /\ csv_out = NoCsv
    /\ hist = <<>>
    /\ io = <<>>

(***************************************************************************)
(* Specifications.  Spec is the program with both front ends and direct    *)
(* calls on a few files; the others run the conversions of one source      *)
(* format over all the bounded inputs of that format.                      *)
(***************************************************************************)
SampleCsv ==
    {NoCsv,
     CsvFile(<<<<CellA, CellB>>, <<CellNum, CellNum>>>>),
     CsvFile(<<<<CellNum>>, <<CellB, CellA>>, <<CellNum>>>>)}
SampleJson ==
    {NoJson, JsonFile(ArrayDoc(<<>>)),
     JsonFile(ArrayDoc(<<Obj(<<[k |-> CellB, v |-> Num(CellNum)],
                               [k |-> CellA, v |-> Str(CellA)]>>)>>))}

Init == Start(SampleCsv, SampleJson, DbSmall)

Next ==
    \/ Call_csv_to_sqlite
    \/ Call_csv_to_json
    \/ Call_json_to_csv
    \/ Call_json_to_sqlite
    \/ Call_sqlite_to_json
    \/ Call_sqlite_to_csv
    \/ Cli
    \/ Gui

Spec == Init /\ [][Next]_vars

InitCsv == Start(CsvInputs, {NoJson}, DbSmall)
NextCsv == Call_csv_to_sqlite \/ Call_csv_to_json \/ Call_json_to_csv
SpecCsv == InitCsv /\ [][NextCsv]_vars

InitJson == Start({NoCsv}, JsonInputs, DbSmall)
NextJson == Call_json_to_csv \/ Call_json_to_sqlite
SpecJson == InitJson /\ [][NextJson]_vars

InitDb == Start({NoCsv}, {NoJson}, DbInputs)
NextDb == Call_sqlite_to_json \/ Call_sqlite_to_csv
SpecDb == InitDb /\ [][NextDb]_vars

(***************************************************************************)
(* What the properties below speak of.                                     *)
(***************************************************************************)
Called == Len(hist) > 0
Last(h) == h[Len(h)]
last == Last(hist)

\* A cell of letters and underscores only, at least one.
IsIdentifier(cell) ==
    /\ Len(cell) >= 1
    /\ \A i \in 1..Len(cell) : cell[i] \in IdentChars

IdentifierRows(rows) ==
    {i \in 1..Len(rows) : \A j \in 1..Len(rows[i]) : IsIdentifier(rows[i][j])}

\* The first identifier-only row, by its definition rather than by a scan.
FirstIdentifierRow(rows) ==
    IF IdentifierRows(rows) = {} THEN NoHeader
    ELSE LET i == CHOOSE m \in IdentifierRows(rows) :
                      \A n \in IdentifierRows(rows) : m <= n
         IN [ok |-> TRUE, i |-> i - 1, row |-> rows[i]]

\* The tabular read of section 4.2: the header row as Schema, the rows after
\* it as the Record Set.
TabularRead(rows) ==
    LET h == FirstIdentifierRow(rows)
    IN [ok |-> h.ok, schema |-> h.row,
        records |-> SubSeq(rows, h.i + 2, Len(rows))]

\* A row as a Record of the schema: positional, null where the row is short.
RecordOf(schema, row) ==
    [j \in 1..Len(schema) |->
        [k |-> schema[j],
         v |-> IF j <= Len(row) THEN Str(row[j]) ELSE Null]]

RecordsOf(schema, rows) ==
    [i \in 1..Len(rows) |-> Obj(RecordOf(schema, rows[i]))]

\* The value an object holds under a key, null when it holds none.
ValueAt(item, key) ==
    IF \E i \in 1..Len(item.kv) : item.kv[i].k = key
    THEN LET i == CHOOSE n \in 1..Len(item.kv) : item.kv[n].k = key
         IN item.kv[i].v
    ELSE Null

\* The text of a value in a delimited file or a TEXT column.
TextOf(v) == IF v.t = "null" THEN <<>> ELSE v.s

AllObjects(items) == \A i \in 1..Len(items) : items[i].t = "obj"

Suffix(sq, n) == SubSeq(sq, Len(sq) - n + 1, Len(sq))

(***************************************************************************)
(* C1.  detect_header returns the smallest index whose row holds only      *)
(* identifier cells (letters and underscores, at least one), with that     *)
(* row, and fails with NoHeaderFound exactly when no row does.  Stated of  *)
(* the detection csv_to_sqlite makes on the rows of its source.            *)
(***************************************************************************)
C1_DetectHeaderFirstIdentifierRow ==
    (Called /\ last.op = "csv_to_sqlite" /\ csv_src.exists) =>
        /\ last.hdr = FirstIdentifierRow(csv_src.rows)
        /\ (last.status = "NoHeaderFound") <=> (IdentifierRows(csv_src.rows) = {})

(***************************************************************************)
(* C2.  For a tabular input with a detectable header and a flat schema     *)
(* (distinct column names, every data row as long as the header),          *)
(* csv_to_json followed by json_to_csv succeeds and the output has the     *)
(* Schema and the Record Set of the input.                                 *)
(***************************************************************************)
FlatTabular(rows) ==
    LET r == TabularRead(rows)
    IN /\ r.ok
       /\ Len(r.schema) >= 1
       /\ Distinct(r.schema)
       /\ \A i \in 1..Len(r.records) : Len(r.records[i]) = Len(r.schema)

C2_RoundTrip ==
    (/\ Len(hist) >= 2
     /\ hist[Len(hist) - 1].op = "csv_to_json"
     /\ last.op = "json_to_csv"
     /\ csv_src.exists
     /\ FlatTabular(csv_src.rows)) =>
        /\ hist[Len(hist) - 1].status = "ok"
        /\ last.status = "ok"
        /\ csv_out.exists
        /\ TabularRead(csv_out.rows) = TabularRead(csv_src.rows)

(***************************************************************************)
(* C3.  A request through either front end whose source or destination is  *)
(* relational and that names no table fails with MissingTableName, and no  *)
(* file or database has been touched when it does.                         *)
(***************************************************************************)
Requested(c) ==
    \/ c.front = "cli"
    \/ c.front = "gui" /\ c.ext # "" /\ c.status # "Cancelled"

C3_MissingTableName ==
    (/\ Called
     /\ Requested(last)
     /\ (last.fmt = "sqlite" \/ last.ext = ".db")
     /\ last.table = "") =>
        /\ last.status = "MissingTableName"
        /\ io = <<>>

(***************************************************************************)
(* C4.  json_to_csv and json_to_sqlite fail with SchemaViolation when the  *)
(* document's top level is not an array, and when it is an empty array.    *)
(***************************************************************************)
C4_SchemaViolation ==
    (/\ Called
     /\ last.op \in {"json_to_csv", "json_to_sqlite"}
     /\ json_file.exists
     /\ (json_file.doc.t # "array" \/ json_file.doc.items = <<>>)) =>
        last.status = "SchemaViolation"

(***************************************************************************)
(* C5.  sqlite_to_json and sqlite_to_csv on a table the database does not  *)
(* hold fail with TableNotFound, whatever the database holds, and leave    *)
(* both destination files as they were: no empty Record Set is written.    *)
(***************************************************************************)
C5_TableNotFound ==
    [][(/\ hist' # hist
        /\ Last(hist').op \in {"sqlite_to_json", "sqlite_to_csv"}
        /\ ~db.tables[Last(hist').table].present) =>
           /\ Last(hist').status = "TableNotFound"
           /\ json_file' = json_file
           /\ csv_out' = csv_out]_vars

C5_Witness ==
    /\ Called
    /\ last.op = "sqlite_to_json"
    /\ last.table = "u"
    /\ db.tables["t"].present
    /\ db.tables["t"].rows # <<>>
    /\ ~db.tables["u"].present
    /\ last.status = "TableNotFound"
    /\ ~json_file.exists

(***************************************************************************)
(* C6.  In a document-source conversion the Schema is the key list of the  *)
(* first element in that element's own order, and every element is written *)
(* as one record of exactly the Schema's columns in Schema order: null or  *)
(* empty for a key the element lacks, nothing for a key the Schema lacks.  *)
(* json_to_csv writes the Schema as the header line and succeeds on every  *)
(* non-empty array of objects; json_to_sqlite appends the records to the   *)
(* table and names a table it creates by the Schema.                       *)
(***************************************************************************)
SchemaOf(doc) == [j \in 1..Len(doc.items[1].kv) |-> doc.items[1].kv[j].k]

Projected(doc) ==
    [i \in 1..Len(doc.items) |->
        [j \in 1..Len(SchemaOf(doc)) |->
            TextOf(ValueAt(doc.items[i], SchemaOf(doc)[j]))]]

StoredText(row) == [j \in 1..Len(row) |-> TextOf(row[j])]

C7_SameTabularRead ==
    (Called /\ last.op = "csv_to_json" /\ csv_src.exists) =>
        LET h == detect_header(csv_src.rows)
            data == SubSeq(csv_src.rows, h.i + 2, Len(csv_src.rows))
        IN IF h.ok
           THEN /\ last.status = "ok"
                /\ json_file.doc = ArrayDoc(RecordsOf(h.row, data))
           ELSE last.status = "NoHeaderFound"

(***************************************************************************)
(* C8.  A conversion that fails while reading its source (NoHeaderFound,   *)
(* SchemaViolation, TableNotFound, a source that cannot be opened) leaves  *)
(* its destination as it was before the call: nothing is created or        *)
(* written there before the source has been read.                          *)
(***************************************************************************)
ReadFailures ==
    {"NoHeaderFound", "SchemaViolation", "TableNotFound", "FileNotFoundError"}

C8_DestinationUntouchedOnReadFailure ==
    [][(hist' # hist /\ Last(hist').status \in ReadFailures) =>
          /\ Last(hist').op \in {"csv_to_sqlite", "json_to_sqlite"} => db' = db
          /\ Last(hist').op \in {"csv_to_json", "sqlite_to_json"} =>
                json_file' = json_file
          /\ Last(hist').op \in {"json_to_csv", "sqlite_to_csv"} =>
                csv_out' = csv_out]_vars

(***************************************************************************)
(* C9.  No conversion changes its source: the CSV file, the JSON file, or  *)
(* the database (its existence, tables and rows) is after the call what it *)
(* was before, also when the database or the table does not exist.         *)
(***************************************************************************)
C9_SourceUnchanged ==
    [][hist' # hist =>
          /\ Last(hist').op \in {"csv_to_sqlite", "csv_to_json"} =>
                csv_src' = csv_src
          /\ Last(hist').op \in {"json_to_csv", "json_to_sqlite"} =>
                json_file' = json_file
          /\ Last(hist').op \in {"sqlite_to_json", "sqlite_to_csv"} =>
                db' = db]_vars

(***************************************************************************)
(* C10.  csv_to_sqlite on a source whose data rows are no longer than the  *)
(* header, one of them shorter, succeeds and stores every row with null in *)
(* the columns the row lacks (as csv_to_json does).                        *)
(***************************************************************************)
C10_ShortRowsNullFilled ==
    (/\ Called
     /\ last.op = "csv_to_sqlite"
     /\ csv_src.exists
     /\ last.hdr.ok
     /\ Len(last.hdr.row) >= 1
     /\ Distinct(last.hdr.row)
     /\ db.tables[last.table].present
     /\ Len(db.tables[last.table].cols) = Len(last.hdr.row)
     /\ LET data == SubSeq(csv_src.rows, last.hdr.i + 2, Len(csv_src.rows))
        IN /\ \A i \in 1..Len(data) :
                 Len(data[i]) >= 1 /\ Len(data[i]) <= Len(last.hdr.row)
           /\ \E i \in 1..Len(data) : Len(data[i]) < Len(last.hdr.row)) =>
        LET data == SubSeq(csv_src.rows, last.hdr.i + 2, Len(csv_src.rows))
        IN /\ last.status = "ok"
           /\ Len(db.tables[last.table].rows) >= Len(data)
           /\ Suffix(db.tables[last.table].rows, Len(data)) =
                  [i \in 1..Len(data) |->
                      [j \in 1..Len(last.hdr.row) |->
                          IF j <= Len(data[i]) THEN Str(data[i][j]) ELSE Null]]

====
